---- MODULE Spec2Model ----
(***************************************************************************)
(* Model of the CDK application of maas-eks-cdk: the two entry points      *)
(* (bin/cdk-projects.ts and its environment-driven variant) and the        *)
(* constructor of CdkProjectsStack (lib/cdk-projects-stack.ts), which      *)
(* assembles an EKS Blueprint and, when an existing VPC is named, a        *)
(* private EC2 instance.  One action per statement group of the            *)
(* constructor; pc is the constructor's position.                          *)
(*                                                                         *)
(* An optional TypeScript value (T | undefined) is a sequence of length    *)
(* at most one: <<>> is undefined, <<v>> is the defined value v.           *)
(***************************************************************************)
EXTENDS Integers, Sequences, FiniteSets, TLC

VARIABLES pc, id, props, vpcProvider, vpcForEc2, blueprint, builds,
          constructs, log, tags

vars == <<pc, id, props, vpcProvider, vpcForEc2, blueprint, builds,
          constructs, log, tags>>

Undefined == <<>>

Some(v) == <<v>>

----------------------------------------------------------------------------
(* Bounds of the input space.                                              *)

\* how many VPC ids of VpcIdPool a caller may pass
MaxVpcIds == 2

\* how many construct ids of IdPool a caller may pass
MaxIds == 2

\* how many account ids of AccountPool the environment may hold
MaxAccounts == 1

VpcIdPool == <<"vpc-00e9c2080fc3a870f", "vpc-12345678", "vpc-0abc", "vpc-0def">>

IdPool == <<"CdkProjectsStack", "Maas", "Dev", "Test">>

AccountPool == <<"471727841202", "111122223333", "444455556666">>

VpcIds == {VpcIdPool[i] : i \in 1..MaxVpcIds}

Ids == {IdPool[i] : i \in 1..MaxIds}

Accounts == {AccountPool[i] : i \in 1..MaxAccounts}

\* a string | undefined taken from the set S, the empty string included
OptString(S) == {Undefined} \cup {Some(s) : s \in S \cup {""}}

OptBool == {Undefined, Some(TRUE), Some(FALSE)}

----------------------------------------------------------------------------
(* EksStackProps and the callers of the constructor.                       *)

EksStackProps ==
    [env : {Undefined} \cup
           {Some(e) : e \in [account : OptString(Accounts),
                             region  : {Undefined, Some("us-east-1")}]},
     vpcId : OptString(VpcIds),
     createNewVpc : OptBool]

\* new CdkProjectsStack(app, 'CdkProjectsStack', { env: { account:
\* process.env.ACC_ID, region: 'us-east-1' }, vpcId: process.env.VPC_ID })
EnvEntryProps(ACC_ID, VPC_ID) ==
    [env |-> Some([account |-> ACC_ID, region |-> Some("us-east-1")]),
     vpcId |-> VPC_ID,
     createNewVpc |-> Undefined]

\* the entry point with the account and the VPC id written out
BinEntryProps ==
    [env |-> Some([account |-> Some("471727841202"),
                   region |-> Some("us-east-1")]),
     vpcId |-> Some("vpc-00e9c2080fc3a870f"),
     createNewVpc |-> Undefined]

\* props?.vpcId
PropsVpcId(p) == IF p = Undefined THEN Undefined ELSE p[1].vpcId

\* props?.createNewVpc
PropsCreateNewVpc(p) == IF p = Undefined THEN Undefined ELSE p[1].createNewVpc

\* props?.env?.account!
PropsAccount(p) ==
    IF p = Undefined THEN Undefined
    ELSE IF p[1].env = Undefined THEN Undefined ELSE p[1].env[1].account

\* props?.env?.region!
PropsRegion(p) ==
    IF p = Undefined THEN Undefined
    ELSE IF p[1].env = Undefined THEN Undefined ELSE p[1].env[1].region

\* JavaScript truthiness of a string | undefined: if (props?.vpcId)
Truthy(v) == v # Undefined /\ v[1] # ""

\* props?.createNewVpc !== false
NotFalse(v) == v # Some(FALSE)

----------------------------------------------------------------------------
(* The values the constructor builds.                                      *)

minSize == 1

maxSize == 5

desiredSize == 2

\* a second node group next to mng1
managedNodeGroupsTwo ==
    << [id |-> "mng1", instanceTypes |-> <<"t3.medium">>,
        minSize |-> minSize, maxSize |-> maxSize, desiredSize |-> desiredSize,
        nodeGroupSubnets |-> "PRIVATE_WITH_EGRESS"],
       [id |-> "mng2", instanceTypes |-> <<"t3.medium">>,
        minSize |-> minSize, maxSize |-> maxSize, desiredSize |-> desiredSize,
        nodeGroupSubnets |-> "PRIVATE_WITH_EGRESS"] >>

managedNodeGroups ==
    << [id |-> "mng1", instanceTypes |-> <<"t3.medium">>,
        minSize |-> minSize, maxSize |-> maxSize, desiredSize |-> desiredSize,
        nodeGroupSubnets |-> "PRIVATE_WITH_EGRESS"] >>

GenericClusterProvider ==
    [version |-> "1.25", endpointAccess |-> "PRIVATE",
     managedNodeGroups |-> managedNodeGroups]

addOns ==
    <<"CoreDnsAddOn", "KubeProxyAddOn", "VpcCniAddOn", "MetricsServerAddOn",
      "ClusterAutoScalerAddOn", "AwsLoadBalancerControllerAddOn",
      "ContainerInsightsAddOn">>

teams == <<>>

\* EksBlueprint.builder().account().region().clusterProvider().addOns().teams()
BlueprintBuilder(account, region) ==
    [account |-> account, region |-> region,
     clusterProvider |-> GenericClusterProvider,
     addOns |-> addOns, teams |-> teams,
     resourceProviders |-> {}]

\* a provider is made on the new-VPC path as well
VpcProviderAlsoForNewVpc(p) ==
    IF Truthy(PropsVpcId(p)) THEN Some([vpcId |-> PropsVpcId(p)[1]])
    ELSE IF NotFalse(PropsCreateNewVpc(p)) THEN Some([vpcId |-> ""])
    ELSE Undefined

\* vpcProvider after the VPC configuration block
VpcProviderFor(p) ==
    IF Truthy(PropsVpcId(p)) THEN Some([vpcId |-> PropsVpcId(p)[1]])
    ELSE Undefined

\* the EC2 VPC is looked up whenever vpcId is defined
VpcForEc2IfDefined(p) ==
    IF PropsVpcId(p) # Undefined
    THEN Some([id |-> "ExistingVpcForEc2", vpcId |-> PropsVpcId(p)[1]])
    ELSE Undefined

\* vpcForEc2 after the VPC configuration block
VpcForEc2For(p) ==
    IF Truthy(PropsVpcId(p))
    THEN Some([id |-> "ExistingVpcForEc2", vpcId |-> PropsVpcId(p)[1]])
    ELSE Undefined

\* console.log lines of the VPC configuration block
VpcLogFor(p) ==
    IF Truthy(PropsVpcId(p))
    THEN <<"Using existing VPC: " \o PropsVpcId(p)[1]>>
    ELSE IF NotFalse(PropsCreateNewVpc(p))
         THEN <<"Creating new VPC for EKS cluster">>
         ELSE <<>>

StackIdOf(i) == i \o "-eks-cluster"

\* the security group, the role and the instance, in creation order
Ec2Constructs(vpc) ==
    << [id |-> "EKSInstanceSg", type |-> "SecurityGroup",
        vpc |-> vpc.vpcId, allowAllOutbound |-> TRUE],
       [id |-> "EKSInstanceRole", type |-> "Role",
        assumedBy |-> "ec2.amazonaws.com",
        managedPolicies |-> {"AmazonSSMManagedInstanceCore"}],
       [id |-> "EKSInstance", type |-> "Instance",
        vpc |-> vpc.vpcId, subnetType |-> "PRIVATE_WITH_EGRESS",
        securityGroup |-> "EKSInstanceSg", role |-> "EKSInstanceRole",
        instanceType |-> "t3.medium",
        machineImage |-> "latestAmazonLinux2023"] >>

----------------------------------------------------------------------------
(* The state machine.                                                      *)

Init ==
    /\ pc = "new"
    /\ id \in Ids
    /\ props \in {Undefined} \cup {Some(p) : p \in EksStackProps}
    /\ vpcProvider = Undefined
    /\ vpcForEc2 = Undefined
    /\ blueprint = Undefined
    /\ builds = <<>>
    /\ constructs = <<>>
    /\ log = <<>>
    /\ tags = {}

\* super(scope, id, props); cdk.Tags.of(this).add('Name', 'Maas')
TagStack ==
    /\ pc = "new"
    /\ tags' = tags \cup {<<"Name", "Maas">>}
    /\ pc' = "vpc"
    /\ UNCHANGED <<id, props, vpcProvider, vpcForEc2, blueprint, builds,
                   constructs, log>>

\* if (props?.vpcId) {...} else if (props?.createNewVpc !== false) {...}
ConfigureVpc ==
    /\ pc = "vpc"
    /\ vpcProvider' = VpcProviderFor(props)
    /\ vpcForEc2' = VpcForEc2For(props)
    /\ log' = log \o VpcLogFor(props)
    /\ pc' = "builder"
    /\ UNCHANGED <<id, props, blueprint, builds, constructs, tags>>

\* const blueprint = blueprints.EksBlueprint.builder()...teams()
MakeBuilder ==
    /\ pc = "builder"
    /\ blueprint' = Some(BlueprintBuilder(PropsAccount(props), PropsRegion(props)))
    /\ pc' = "provider"
    /\ UNCHANGED <<id, props, vpcProvider, vpcForEc2, builds, constructs,
                   log, tags>>

\* if (vpcProvider) blueprint.resourceProvider(GlobalResources.Vpc, vpcProvider)
AddVpcProvider ==
    /\ pc = "provider"
    /\ blueprint' =
         IF vpcProvider # Undefined
         THEN Some([blueprint[1] EXCEPT !.resourceProviders =
                       @ \cup {<<"vpc", vpcProvider[1]>>}])
         ELSE blueprint
    /\ pc' = "build"
    /\ UNCHANGED <<id, props, vpcProvider, vpcForEc2, builds, constructs,
                   log, tags>>

\* const stackId = id + "-eks-cluster"; blueprint.build(scope, stackId)
Build ==
    /\ pc = "build"
    /\ builds' = Append(builds, [stackId |-> StackIdOf(id),
                                 blueprint |-> blueprint[1]])
    /\ pc' = "ec2"
    /\ UNCHANGED <<id, props, vpcProvider, vpcForEc2, blueprint, constructs,
                   log, tags>>

\* if (vpcForEc2) { SecurityGroup; Role; Instance }
CreateEc2 ==
    /\ pc = "ec2"
    /\ constructs' =
         IF vpcForEc2 # Undefined
         THEN constructs \o Ec2Constructs(vpcForEc2[1])
         ELSE constructs
    /\ pc' = "done"
    /\ UNCHANGED <<id, props, vpcProvider, vpcForEc2, blueprint, builds,
                   log, tags>>

Next ==
    \/ TagStack
    \/ ConfigureVpc
    \/ MakeBuilder
    \/ AddVpcProvider
    \/ Build
    \/ CreateEc2

Spec == Init /\ [][Next]_vars

TypeOK ==
    /\ pc \in {"new", "vpc", "builder", "provider", "build", "ec2", "done"}
    /\ id \in Ids
    /\ Len(builds) <= 1
    /\ Len(constructs) \in {0, 3}

----------------------------------------------------------------------------
(* Properties.                                                             *)

\* the blueprint handed to build() by the one build call, if it happened
Built == builds[1].blueprint

\* vpcId is a non-empty string
NonEmptyVpcId == PropsVpcId(props) # Undefined /\ PropsVpcId(props)[1] # ""

C9_VpcProviderAndEc2IffVpcId ==
    /\ Len(builds) = (IF pc \in {"ec2", "done"} THEN 1 ELSE 0)
    /\ pc = "done" =>
         /\ builds[1].stackId = id \o "-eks-cluster"
         /\ IF NonEmptyVpcId
            THEN /\ Built.resourceProviders =
                      {<<"vpc", [vpcId |-> PropsVpcId(props)[1]]>>}
                 /\ Len(constructs) = 3
                 /\ constructs[1].type = "SecurityGroup"
                 /\ constructs[2].type = "Role"
                 /\ constructs[2].managedPolicies =
                      {"AmazonSSMManagedInstanceCore"}
                 /\ constructs[3].type = "Instance"
                 /\ constructs[3].securityGroup = constructs[1].id
                 /\ constructs[3].role = constructs[2].id
                 /\ constructs[3].vpc = PropsVpcId(props)[1]
            ELSE /\ Built.resourceProviders = {}
                 /\ constructs = <<>>

C9_Witness ==
    /\ pc = "done"
    /\ props = Some(BinEntryProps)
    /\ Built.resourceProviders # {}
    /\ Len(constructs) = 3

\* the entry point run with VPC_ID unset or empty: nothing VPC-specific
C9_WitnessUnset ==
    /\ pc = "done"
    /\ \E acc \in OptString(Accounts), v \in {Undefined, Some("")} :
         props = Some(EnvEntryProps(acc, v))
    /\ Built.resourceProviders = {}
    /\ constructs = <<>>

====
